---------------------------- MODULE Spec2Model ----------------------------
(***************************************************************************)
(* Model of the marketplace app's presentation layer:                      *)
(*   - MainTabsScreen  (src/src/screens/MainTabsScreen.tsx): the tab shell *)
(*     with its PagerView, tab bar animations and the product detail       *)
(*     overlay;                                                            *)
(*   - MarketplaceScreen and ProductCard (src/unnamed/part_000): the       *)
(*     listing screen with loadData, the realtime subscription and         *)
(*     pull-to-refresh, and the card's discount computation.               *)
(* All handlers run on the single JS thread: one action is one handler (or *)
(* one promise continuation together with the microtasks it triggers).     *)
(***************************************************************************)
EXTENDS Integers, Sequences, FiniteSets, TLC

VARIABLES
    \* ---- MainTabsScreen ----
    currentPage,      \* useState(0): the recorded current page index
    selectedProduct,  \* useState(null): NoProduct or a product id
    scaleAnims,       \* per tab: the toValues of the running animation and
                      \* of the animations queued behind it (x100)
    pagerRef,         \* pagerRef.current: "null" or "pager"
    pagerPage,        \* the page the PagerView shows
    pageEvents,       \* onPageSelected events emitted and not yet handled
    \* ---- MarketplaceScreen ----
    isLoading, refreshing, newProducts, saleProducts, categories,
    loads,            \* the loadData / onRefresh runs of the mounted instance
    subs,             \* product-change subscriptions the data service holds
    writer,           \* per displayed collection: the run of loadData whose
                      \* set call wrote it last (history)
    \* ---- ProductCard ----
    card,             \* the product a card renders: [price, original_price]
    badge,            \* what the card's discount badge shows (NoBadge: none)
    \* ---- history ----
    last,             \* the handler that ran last, with its inputs
    pageAtSelect      \* currentPage when the product was selected

vars == <<currentPage, selectedProduct, scaleAnims, pagerRef, pagerPage,
          pageEvents, isLoading, refreshing, newProducts, saleProducts,
          categories, loads, subs, writer, card, badge, last, pageAtSelect>>

shellVars   == <<currentPage, scaleAnims, pagerRef, pagerPage, pageEvents>>
listingVars == <<isLoading, refreshing, newProducts, saleProducts,
                 categories, loads, subs, writer>>
cardVars    == <<card, badge>>

-----------------------------------------------------------------------------
(* Bounds of the model *)

\* loadData / onRefresh runs started by one mounted instance of the screen
MaxLoads == 2
\* onPageSelected events that may be in flight at once
MaxEvents == 1
\* size of the largest catalog fetchAllProducts returns
MaxCatalog == 25
\* largest price of a product card
MaxPrice == 40

(* Program constants *)

\* fetchNewProducts(10) and allProducts.slice(0, 10)
SliceLimit == 10

NoProduct == 0
NoBadge == -1

Min(a, b) == IF a < b THEN a ELSE b

Range(s) == {s[i] : i \in 1..Len(s)}

-----------------------------------------------------------------------------
(* The external data service (productService.cached): what it may answer *)

\* fetchAllProducts(): a catalog of n products, ids 1..n in catalog order
Catalog(n) == [i \in 1..n |-> i]
CatalogSizes == {0, 3, SliceLimit, MaxCatalog}

\* fetchNewProducts(10): nothing, or some products newest first
NewResponses == {<<>>, <<3, 1>>}
\* fetchFournisseurProducts(20)
SupplierResponses == {<<>>, <<2>>}
\* fetchProductCategories()
CategoryResponses == {<<>>, <<"phones">>}

Requests == {"new", "sale", "cats"}
LoadIds == 1..MaxLoads

\* slice with the end index taken as inclusive
SliceInclusive(s, end) == SubSeq(s, 1, Min(end + 1, Len(s)))

\* Array.prototype.slice(0, end) on a sequence
Slice(s, end) == SubSeq(s, 1, Min(end, Len(s)))

-----------------------------------------------------------------------------
(* A run of loadData (with the onRefresh that called it, if any) *)

IdleLoad ==
    [pc |-> "unused", origin |-> "none", inval |-> "none",
     req |-> [r \in Requests |-> "none"], fb |-> "none", end |-> "none"]

\* loadData() entered: the three requests of Promise.all are issued
IssueRequests(rec) ==
    [rec EXCEPT !.pc = "all", !.req = [r \in Requests |-> "pending"]]

FirstFree == CHOOSE c \in LoadIds :
                /\ loads[c].pc = "unused"
                /\ \A d \in LoadIds : loads[d].pc = "unused" => c <= d

HasFree == \E c \in LoadIds : loads[c].pc = "unused"

Mounted == selectedProduct = NoProduct

Note(op, cyc, arg, val, jumps) ==
    [op |-> op, cyc |-> cyc, arg |-> arg, val |-> val, jumps |-> jumps]

\* no run of loadData: the collection holds its useState initial value
NoCycle == 0
Collections == {"new", "sale", "cats"}
NoWriter == [k \in Collections |-> NoCycle]

\* The results run c has applied so far.  A run in flight is at one of its
\* awaits: at Promise.all (line 218) and at the fallback of the New section
\* (line 226) it has called no setter yet; at the fallback of the Sale
\* section (line 235) it has called setNewProducts (line 227 or 229).
Applied(c) == IF loads[c].pc = "fbSale" THEN <<"new">> ELSE <<>>

\* writer after run c has called setNewProducts (new) and, together,
\* setSaleProducts and setCategories (rest)
Wrote(c, new, rest) ==
    [k \in Collections |->
        IF (k = "new" /\ new) \/ (k # "new" /\ rest) THEN c ELSE writer[k]]


-----------------------------------------------------------------------------
(* loadData: src/unnamed/part_000 lines 216-247                            *)
(*                                                                         *)
(* What a fulfilled request delivered is drawn when loadData first reads   *)
(* it: newProds when Promise.all resolves, fournisseurProds at line 233,   *)
(* cats at line 241.                                                       *)

\* finally { setIsLoading(false) }, after which the awaiting onRefresh (if
\* this run was started by one) resumes with setRefreshing(false).  The run
\* is over: requests of it that are still pending are awaited by no one.
LoadFinally(c, kind) ==
    /\ isLoading' = FALSE
    /\ refreshing' = IF loads[c].origin = "refresh" THEN FALSE ELSE refreshing
    /\ loads' = [loads EXCEPT ![c] =
                    [IdleLoad EXCEPT !.pc = "done", !.end = kind,
                                     !.origin = loads[c].origin,
                                     !.inval = loads[c].inval]]

\* catch (error) { console.error(...) } finally {...}
LoadCatch(c) ==
    /\ LoadFinally(c, "caught")
    /\ UNCHANGED <<newProducts, saleProducts, categories, writer>>

\* lines 232-241: the Sale section, then setCategories(cats)
SaleSection(c, sales, cats) ==
    \E sv \in sales :
        IF Len(sv) = 0
        THEN \* const allProducts = await fetchAllProducts()
             /\ loads' = [loads EXCEPT ![c].pc = "fbSale",
                                       ![c].fb = "pending",
                                       ![c].req = [r \in Requests |-> "ok"]]
             /\ UNCHANGED <<saleProducts, categories, isLoading, refreshing>>
        ELSE /\ saleProducts' = sv
             /\ \E cv \in cats : categories' = cv
             /\ LoadFinally(c, "ok")

\* lines 224-230: the New section, entered when Promise.all has resolved
NewSection(c, nv, sales, cats) ==
    IF Len(nv) = 0
    THEN \* const allProducts = await fetchAllProducts()
         /\ loads' = [loads EXCEPT ![c].pc = "fbNew", ![c].fb = "pending",
                                   ![c].req = [r \in Requests |-> "ok"]]
         /\ UNCHANGED <<newProducts, saleProducts, categories, isLoading,
                        refreshing>>
    ELSE /\ newProducts' = nv
         /\ SaleSection(c, sales, cats)

\* One of the three requests of Promise.all is fulfilled; with the last of
\* them Promise.all resolves and loadData goes on.  news, sales and cats are
\* the answers the data service may have given.
FetchResolves(c, r, news, sales, cats) ==
    /\ Mounted
    /\ loads[c].pc = "all"
    /\ loads[c].req[r] = "pending"
    /\ IF \A q \in Requests \ {r} : loads[c].req[q] = "ok"
       THEN \E nv \in news :
                /\ NewSection(c, nv, sales, cats)
                /\ writer' = Wrote(c, Len(nv) # 0, loads'[c].pc = "done")
                /\ last' = Note("allResolved", c, 0, nv, <<>>)
       ELSE /\ loads' = [loads EXCEPT ![c].req[r] = "ok"]
            /\ last' = Note("fetchResolved", 0, 0, <<>>, <<>>)
            /\ UNCHANGED <<newProducts, saleProducts, categories, isLoading,
                           refreshing, writer>>
    /\ UNCHANGED <<subs, selectedProduct, pageAtSelect>>
    /\ UNCHANGED shellVars
    /\ UNCHANGED cardVars

\* One of the three requests is rejected, and with it Promise.all.
FetchRejects(c, r) ==
    /\ Mounted
    /\ loads[c].pc = "all"
    /\ loads[c].req[r] = "pending"
    /\ LoadCatch(c)
    /\ last' = Note("fetchRejected", c, 0, Applied(c), <<>>)
    /\ UNCHANGED <<subs, selectedProduct, pageAtSelect>>
    /\ UNCHANGED shellVars
    /\ UNCHANGED cardVars

\* The fallback fetchAllProducts() of the New or of the Sale section is
\* fulfilled with a catalog of n products.
FetchAllResolves(c, n, sales, cats) ==
    /\ Mounted
    /\ loads[c].pc \in {"fbNew", "fbSale"}
    /\ IF loads[c].pc = "fbNew"
       THEN /\ newProducts' = Slice(Catalog(n), SliceLimit)
            /\ SaleSection(c, sales, cats)
            /\ writer' = Wrote(c, TRUE, loads'[c].pc = "done")
            /\ last' = Note("fallbackNew", c, n, <<>>, <<>>)
       ELSE /\ saleProducts' = Slice(Catalog(n), SliceLimit)
            /\ \E cv \in cats : categories' = cv
            /\ LoadFinally(c, "ok")
            /\ writer' = Wrote(c, FALSE, TRUE)
            /\ last' = Note("fallbackSale", 0, 0, <<>>, <<>>)
            /\ UNCHANGED newProducts
    /\ UNCHANGED <<subs, selectedProduct, pageAtSelect>>
    /\ UNCHANGED shellVars
    /\ UNCHANGED cardVars

\* the fallback awaited outside the try block: its rejection leaves loadData
FetchAllRejectsUncaught(c) ==
    /\ Mounted
    /\ loads[c].pc \in {"fbNew", "fbSale"}
    /\ loads' = [loads EXCEPT ![c] =
                    [IdleLoad EXCEPT !.pc = "done", !.end = "threw",
                                     !.origin = loads[c].origin,
                                     !.inval = loads[c].inval]]
    /\ last' = Note("fallbackRejected", c, 0, Applied(c), <<>>)
    /\ UNCHANGED <<isLoading, refreshing, newProducts, saleProducts,
                   categories, writer, subs, selectedProduct, pageAtSelect>>
    /\ UNCHANGED shellVars
    /\ UNCHANGED cardVars

\* The fallback fetchAllProducts() is rejected.
FetchAllRejects(c) ==
    /\ Mounted
    /\ loads[c].pc \in {"fbNew", "fbSale"}
    /\ LoadCatch(c)
    /\ last' = Note("fallbackRejected", c, 0, Applied(c), <<>>)
    /\ UNCHANGED <<subs, selectedProduct, pageAtSelect>>
    /\ UNCHANGED shellVars
    /\ UNCHANGED cardVars

-----------------------------------------------------------------------------
(* MarketplaceScreen: mount and unmount effects, subscription, refresh *)

\* The component mounts: useState initial values (lines 203-207), the
\* initial-load effect (lines 250-252) and the subscription effect
\* (lines 255-259).
MountListing ==
    /\ isLoading' = TRUE
    /\ refreshing' = FALSE
    /\ newProducts' = <<>>
    /\ saleProducts' = <<>>
    /\ categories' = <<>>
    /\ loads' = [c \in LoadIds |->
                    IF c = 1
                    THEN IssueRequests([IdleLoad EXCEPT !.origin = "mount"])
                    ELSE IdleLoad]
    /\ writer' = NoWriter
    /\ subs' = subs + 1

\* an effect without its cleanup: the subscription outlives the component
UnmountListingLeak ==
    /\ subs' = subs
    /\ isLoading' = TRUE
    /\ refreshing' = FALSE
    /\ newProducts' = <<>>
    /\ saleProducts' = <<>>
    /\ categories' = <<>>
    /\ writer' = NoWriter
    /\ loads' = [c \in LoadIds |-> IdleLoad]

\* The component unmounts: the effect cleanup (lines 260-262) releases the
\* subscription.  The instance's state is discarded; runs of loadData still
\* in flight can only write to that discarded state and are forgotten.
UnmountListing ==
    /\ subs' = subs - 1
    /\ isLoading' = TRUE
    /\ refreshing' = FALSE
    /\ newProducts' = <<>>
    /\ saleProducts' = <<>>
    /\ categories' = <<>>
    /\ writer' = NoWriter
    /\ loads' = [c \in LoadIds |-> IdleLoad]

\* a callback that skips the reload while another run is in flight
NotifyCoalesced ==
    /\ Mounted
    /\ subs > 0
    /\ HasFree
    /\ loads' = IF \E d \in LoadIds : loads[d].pc \in {"inval", "all", "fbNew", "fbSale"}
                THEN loads
                ELSE [loads EXCEPT ![FirstFree] =
                        IssueRequests([IdleLoad EXCEPT !.origin = "realtime"])]
    /\ last' = Note("notify", FirstFree, 0, <<>>, <<>>)
    /\ UNCHANGED <<isLoading, refreshing, newProducts, saleProducts,
                   categories, writer, subs, selectedProduct, pageAtSelect>>
    /\ UNCHANGED shellVars
    /\ UNCHANGED cardVars

\* The data service delivers a change notification: the callback given to
\* subscribeToProducts runs (lines 256-258).
Notify ==
    /\ Mounted
    /\ subs > 0
    /\ HasFree
    /\ loads' = [loads EXCEPT ![FirstFree] =
                    IssueRequests([IdleLoad EXCEPT !.origin = "realtime"])]
    /\ last' = Note("notify", FirstFree, 0, <<>>, <<>>)
    /\ UNCHANGED <<isLoading, refreshing, newProducts, saleProducts,
                   categories, writer, subs, selectedProduct, pageAtSelect>>
    /\ UNCHANGED shellVars
    /\ UNCHANGED cardVars

\* onRefresh calling loadData() without awaiting invalidateProductCaches()
OnRefreshNoAwait ==
    /\ Mounted
    /\ ~refreshing
    /\ HasFree
    /\ refreshing' = TRUE
    /\ loads' = [loads EXCEPT ![FirstFree] =
                    IssueRequests([IdleLoad EXCEPT !.origin = "refresh",
                                                   !.inval = "pending"])]
    /\ last' = Note("refresh", 0, 0, <<>>, <<>>)
    /\ UNCHANGED <<isLoading, newProducts, saleProducts, categories, writer,
                   subs, selectedProduct, pageAtSelect>>
    /\ UNCHANGED shellVars
    /\ UNCHANGED cardVars

\* onRefresh up to its first await (lines 265-267).  RefreshControl calls
\* onRefresh only while it is not already showing the refreshing state.
OnRefresh ==
    /\ Mounted
    /\ ~refreshing
    /\ HasFree
    /\ refreshing' = TRUE
    /\ loads' = [loads EXCEPT ![FirstFree] =
                    [IdleLoad EXCEPT !.pc = "inval", !.origin = "refresh",
                                     !.inval = "pending"]]
    /\ last' = Note("refresh", 0, 0, <<>>, <<>>)
    /\ UNCHANGED <<isLoading, newProducts, saleProducts, categories, writer,
                   subs, selectedProduct, pageAtSelect>>
    /\ UNCHANGED shellVars
    /\ UNCHANGED cardVars

\* invalidateProductCaches() is fulfilled: onRefresh goes on to call
\* loadData() (line 268).
InvalidateResolves(c) ==
    /\ Mounted
    /\ loads[c].pc = "inval"
    /\ loads' = [loads EXCEPT ![c] =
                    IssueRequests([loads[c] EXCEPT !.inval = "ok"])]
    /\ last' = Note("invalidated", 0, 0, <<>>, <<>>)
    /\ UNCHANGED <<isLoading, refreshing, newProducts, saleProducts,
                   categories, writer, subs, selectedProduct, pageAtSelect>>
    /\ UNCHANGED shellVars
    /\ UNCHANGED cardVars

\* invalidateProductCaches() is rejected: the rejection leaves onRefresh,
\* which has no try; lines 268-269 do not run.
InvalidateRejects(c) ==
    /\ Mounted
    /\ loads[c].pc = "inval"
    /\ loads' = [loads EXCEPT ![c] =
                    [loads[c] EXCEPT !.pc = "aborted", !.inval = "fail"]]
    /\ last' = Note("invalidateRejected", 0, 0, <<>>, <<>>)
    /\ UNCHANGED <<isLoading, refreshing, newProducts, saleProducts,
                   categories, writer, subs, selectedProduct, pageAtSelect>>
    /\ UNCHANGED shellVars
    /\ UNCHANGED cardVars

-----------------------------------------------------------------------------
(* MainTabsScreen: src/src/screens/MainTabsScreen.tsx *)

\* TABS (lines 32-38) and the pages of the PagerView (lines 127-141)
NumTabs == 5
Pages == 0..(NumTabs - 1)
\* <PagerView initialPage={0}>
InitialPage == 0
\* the page with key "home", which holds the MarketplaceScreen
HomePage == 0
\* handleNavigateToCart: "Cart is at index 2"
CartPage == 2

\* toValues of the tab animations, x100
Normal == 100
Enlarged == 115
Shrunk == 85

\* pagerRef.current?.setPage(index): the PagerView shows page index and
\* reports it through onPageSelected; whether it reports a jump to the page
\* it already shows is up to the native component (emit).
SetPage(index, emit) ==
    IF pagerRef = "null"
    THEN UNCHANGED <<pagerPage, pageEvents>>
    ELSE /\ pagerPage' = index
         /\ pageEvents' = IF emit THEN Append(pageEvents, index)
                          ELSE pageEvents

\* what the PagerView was told during the handler: the setPage calls
Jumps(index) == IF pagerRef = "null" THEN <<>> ELSE <<index>>

EmitChoices(index) == IF index = pagerPage THEN BOOLEAN ELSE {TRUE}

\* press sequences still running on a tab
Pressing == {i \in Pages : Len(scaleAnims[i]) > 1}

\* springs that do not replace a press sequence still running on the tab
HandlePageSelectedKeepsSequences ==
    /\ Mounted
    /\ pageEvents # <<>>
    /\ LET position == Head(pageEvents) IN
       /\ currentPage' = position
       /\ scaleAnims' = [i \in Pages |->
                            IF i \in Pressing THEN scaleAnims[i]
                            ELSE <<IF i = position THEN Enlarged ELSE Normal>>]
       /\ last' = Note("pageSelected", 0, position,
                       <<Cardinality(Pressing)>>, <<>>)
    /\ pageEvents' = Tail(pageEvents)
    /\ UNCHANGED <<pagerRef, pagerPage, selectedProduct, pageAtSelect>>
    /\ UNCHANGED listingVars
    /\ UNCHANGED cardVars

\* handlePageSelected (lines 60-73): Animated.spring(...).start() on a value
\* stops the animation running on it, so a press sequence is replaced.
HandlePageSelected ==
    /\ Mounted
    /\ pageEvents # <<>>
    /\ LET position == Head(pageEvents) IN
       /\ currentPage' = position
       /\ scaleAnims' = [i \in Pages |->
                            <<IF i = position THEN Enlarged ELSE Normal>>]
       /\ last' = Note("pageSelected", 0, position,
                       <<Cardinality(Pressing)>>, <<>>)
    /\ pageEvents' = Tail(pageEvents)
    /\ UNCHANGED <<pagerRef, pagerPage, selectedProduct, pageAtSelect>>
    /\ UNCHANGED listingVars
    /\ UNCHANGED cardVars

\* a press that leaves the pager alone when the tab is already current
HandleTabPressSkipCurrent(index, emit) ==
    /\ Mounted
    /\ Len(pageEvents) < MaxEvents
    /\ scaleAnims' = [scaleAnims EXCEPT ![index] =
                        <<Shrunk, IF currentPage = index THEN Enlarged
                                  ELSE Normal>>]
    /\ IF currentPage = index
       THEN /\ UNCHANGED <<pagerPage, pageEvents>>
            /\ last' = Note("tabPress", 0, index, <<>>, <<>>)
       ELSE /\ SetPage(index, emit)
            /\ last' = Note("tabPress", 0, index, <<>>, Jumps(index))
    /\ UNCHANGED <<currentPage, pagerRef, selectedProduct, pageAtSelect>>
    /\ UNCHANGED listingVars
    /\ UNCHANGED cardVars

\* a press that records the pressed tab as current at once
HandleTabPressSetsCurrent(index, emit) ==
    /\ Mounted
    /\ Len(pageEvents) < MaxEvents
    /\ scaleAnims' = [scaleAnims EXCEPT ![index] =
                        <<Shrunk, IF currentPage = index THEN Enlarged
                                  ELSE Normal>>]
    /\ SetPage(index, emit)
    /\ currentPage' = index
    /\ last' = Note("tabPress", 0, index, <<>>, Jumps(index))
    /\ UNCHANGED <<pagerRef, selectedProduct, pageAtSelect>>
    /\ UNCHANGED listingVars
    /\ UNCHANGED cardVars

\* handleTabPress (lines 75-92), called by the Pressable of tab index
HandleTabPress(index, emit) ==
    /\ Mounted
    /\ Len(pageEvents) < MaxEvents
    /\ scaleAnims' = [scaleAnims EXCEPT ![index] =
                        <<Shrunk, IF currentPage = index THEN Enlarged
                                  ELSE Normal>>]
    /\ SetPage(index, emit)
    /\ last' = Note("tabPress", 0, index, <<>>, Jumps(index))
    /\ UNCHANGED <<currentPage, pagerRef, selectedProduct, pageAtSelect>>
    /\ UNCHANGED listingVars
    /\ UNCHANGED cardVars

\* handleNavigateToCart (lines 94-96), called by the cart icon of the
\* MarketplaceScreen (part_000 line 305), which is on the home page
HandleNavigateToCart(emit) ==
    /\ Mounted
    /\ pagerPage = HomePage
    /\ Len(pageEvents) < MaxEvents
    /\ SetPage(CartPage, emit)
    /\ last' = Note("navigateToCart", 0, CartPage, <<>>, Jumps(CartPage))
    /\ UNCHANGED <<currentPage, scaleAnims, pagerRef, selectedProduct,
                   pageAtSelect>>
    /\ UNCHANGED listingVars
    /\ UNCHANGED cardVars

\* The user swipes the PagerView to a neighbouring page.
UserSwipe(to) ==
    /\ Mounted
    /\ to \in Pages
    /\ to \in {pagerPage - 1, pagerPage + 1}
    /\ Len(pageEvents) < MaxEvents
    /\ pagerPage' = to
    /\ pageEvents' = Append(pageEvents, to)
    /\ last' = Note("swipe", 0, to, <<>>, <<>>)
    /\ UNCHANGED <<currentPage, scaleAnims, pagerRef, selectedProduct,
                   pageAtSelect>>
    /\ UNCHANGED listingVars
    /\ UNCHANGED cardVars

\* The Animated.timing of a press sequence (lines 78-82) finishes and the
\* sequence starts its Animated.spring (lines 83-88).
AnimationAdvances(i) ==
    /\ Len(scaleAnims[i]) > 1
    /\ scaleAnims' = [scaleAnims EXCEPT ![i] = Tail(scaleAnims[i])]
    /\ last' = Note("animation", 0, i, <<>>, <<>>)
    /\ UNCHANGED <<currentPage, pagerRef, pagerPage, pageEvents,
                   selectedProduct, pageAtSelect>>
    /\ UNCHANGED listingVars
    /\ UNCHANGED cardVars

\* the products whose cards the MarketplaceScreen shows (lines 339-385)
ShownProducts ==
    IF isLoading THEN {} ELSE Range(newProducts) \cup Range(saleProducts)

\* handleProductPress (lines 98-100), reached from a ProductCard's onPress,
\* and the render that follows (lines 107-114): the ProductDetailScreen
\* replaces the PagerView and the tab bar, so the MarketplaceScreen unmounts.
HandleProductPress(product) ==
    /\ Mounted
    /\ pagerPage = HomePage
    /\ product \in ShownProducts
    /\ selectedProduct' = product
    /\ pageAtSelect' = currentPage
    /\ pagerRef' = "null"
    /\ pagerPage' = InitialPage
    /\ pageEvents' = <<>>
    /\ UnmountListing
    /\ last' = Note("productPress", 0, currentPage, <<>>, <<>>)
    /\ UNCHANGED <<currentPage, scaleAnims>>
    /\ UNCHANGED cardVars

\* handleBackFromProduct (lines 102-104) and the render that follows
\* (lines 116-175): a new PagerView mounts with initialPage={0}, and with it
\* a new MarketplaceScreen.  Whether the new PagerView reports its initial
\* page through onPageSelected is up to the native component (emit).
HandleBackFromProduct(emit) ==
    /\ ~Mounted
    /\ selectedProduct' = NoProduct
    /\ pagerRef' = "pager"
    /\ pagerPage' = InitialPage
    /\ pageEvents' = IF emit THEN <<InitialPage>> ELSE <<>>
    /\ MountListing
    /\ last' = Note("back", 0, pageAtSelect, <<>>, <<>>)
    /\ pageAtSelect' = 0
    /\ UNCHANGED <<currentPage, scaleAnims>>
    /\ UNCHANGED cardVars

-----------------------------------------------------------------------------
(* ProductCard: the discount (src/unnamed/part_000 lines 120-145)          *)
(*                                                                         *)
(* Prices are JavaScript numbers, so the percentage is computed in IEEE    *)
(* 754 double precision.  A double x > 0 is kept here as its exponent x.e  *)
(* and the 52 bits x.m that follow its leading 1 bit, as four limbs of 13  *)
(* bits, most significant first:                                           *)
(*   x = (1 + x.m[1]/2^13 + x.m[2]/2^26 + x.m[3]/2^39 + x.m[4]/2^52) * 2^e *)

LimbBits == 13
Limb == 2 ^ LimbBits

\* x.m + 1, as it is needed when rounding up; a carry out of the first limb
\* makes the value 2^(e+1)
RoundUp(m, e) ==
    LET c4 == IF m[4] + 1 = Limb THEN 1 ELSE 0
        c3 == IF m[3] + c4 = Limb THEN 1 ELSE 0
        c2 == IF m[2] + c3 = Limb THEN 1 ELSE 0
        c1 == IF m[1] + c2 = Limb THEN 1 ELSE 0
    IN  [m |-> <<(m[1] + c2) % Limb, (m[2] + c3) % Limb,
                 (m[3] + c4) % Limb, (m[4] + 1) % Limb>>,
         e |-> e + c1]

\* round to nearest, ties to even: guard is the first bit dropped, sticky
\* tells that a later dropped bit is 1
RoundToDouble(m, e, guard, sticky) ==
    IF guard = 1 /\ (sticky \/ m[4] % 2 = 1) THEN RoundUp(m, e)
    ELSE [m |-> m, e |-> e]

\* the exponent of num / den, and num / den scaled into [1, 2)
RECURSIVE Scale(_, _, _)
Scale(num, den, e) ==
    IF num >= 2 * den THEN Scale(num, 2 * den, e + 1)
    ELSE IF num < den THEN Scale(2 * num, den, e - 1)
    ELSE [num |-> num, den |-> den, e |-> e]

\* the double nearest to num / den, for integers num > 0 and den > 0:
\* long division, 13 quotient bits at a time
FloatDiv(num, den) ==
    LET s  == Scale(num, den, 0)
        r0 == s.num - s.den
        q1 == (r0 * Limb) \div s.den
        r1 == (r0 * Limb) % s.den
        q2 == (r1 * Limb) \div s.den
        r2 == (r1 * Limb) % s.den
        q3 == (r2 * Limb) \div s.den
        r3 == (r2 * Limb) % s.den
        q4 == (r3 * Limb) \div s.den
        r4 == (r3 * Limb) % s.den
        g  == IF 2 * r4 >= s.den THEN 1 ELSE 0
    IN  RoundToDouble(<<q1, q2, q3, q4>>, s.e, g, 2 * r4 - g * s.den # 0)

\* the double nearest to x * k, for a double x > 0 and an integer k with
\* 64 <= k < 128: the exact product has 59 or 60 bits
FloatMul(x, k) ==
    LET t4 == x.m[4] * k
        t3 == x.m[3] * k + t4 \div Limb
        t2 == x.m[2] * k + t3 \div Limb
        t1 == x.m[1] * k + t2 \div Limb
        t0 == k + t1 \div Limb
        p  == <<t1 % Limb, t2 % Limb, t3 % Limb, t4 % Limb>>
        \* bits of t0 behind its leading 1, which now go into the mantissa
        n    == IF t0 >= 128 THEN 7 ELSE 6
        low  == 2 ^ n
        up   == 2 ^ (LimbBits - n)
        m    == <<(t0 % low) * up + p[1] \div low,
                  (p[1] % low) * up + p[2] \div low,
                  (p[2] % low) * up + p[3] \div low,
                  (p[3] % low) * up + p[4] \div low>>
        rest == p[4] % low
    IN  RoundToDouble(m, x.e + n, rest \div (low \div 2),
                      rest % (low \div 2) # 0)

\* bit i of the 53 significant bits of x, the leading 1 being bit 1
Bit(x, i) ==
    IF i = 1 THEN 1
    ELSE LET j == i - 2
         IN  (x.m[j \div LimbBits + 1]
                 \div (2 ^ (LimbBits - 1 - (j % LimbBits)))) % 2

SignificantBits == 53

\* Math.round of the double x (of -x when neg): the nearest integer, a tie
\* going to the larger one.  x < 2^26 here.
MathRound(x, neg) ==
    LET int   == IF x.e < 0 THEN 0
                 ELSE IF x.e <= LimbBits
                 THEN 2 ^ x.e + x.m[1] \div (2 ^ (LimbBits - x.e))
                 ELSE 2 ^ x.e + x.m[1] * 2 ^ (x.e - LimbBits)
                      + x.m[2] \div (2 ^ (2 * LimbBits - x.e))
        h     == x.e + 2
        half  == h \in 1..SignificantBits /\ Bit(x, h) = 1
        below == \E j \in (h + 1)..SignificantBits : j >= 1 /\ Bit(x, j) = 1
    IN  IF neg THEN 0 - (int + (IF half /\ below THEN 1 ELSE 0))
        ELSE int + (IF half THEN 1 ELSE 0)

\* Math.round(((original_price - price) / original_price) * 100)
RoundedPercent(original_price, price) ==
    LET diff == original_price - price IN
    IF diff = 0 THEN 0
    ELSE MathRound(FloatMul(FloatDiv(IF diff < 0 THEN 0 - diff ELSE diff,
                                     original_price), 100),
                   diff < 0)

\* lines 121-123: a missing original_price (undefined, null, 0) is falsy
NoPrice == 0
Discount(product) ==
    IF product.original_price # NoPrice
    THEN RoundedPercent(product.original_price, product.price)
    ELSE 0

\* the badge tested with >= instead of >
DiscountBadgeFromZero(product) ==
    IF Discount(product) >= 0 THEN Discount(product) ELSE NoBadge

\* lines 141-145: {discount > 0 && <View ...>-{discount}%</View>}
DiscountBadge(product) ==
    IF Discount(product) > 0 THEN Discount(product) ELSE NoBadge

\* the prices of the cards: the small ones, and those of the examples
Prices == (1..MaxPrice) \cup {750, 999, 1000}
Cards == [price : Prices, original_price : Prices \cup {NoPrice}]
NoCard == [price |-> 1, original_price |-> NoPrice]

\* A ProductCard renders its product.
RenderCard ==
    /\ last.op # "renderCard"
    /\ badge' = DiscountBadge(card)
    /\ last' = Note("renderCard", 0, 0, <<>>, <<>>)
    /\ UNCHANGED <<card, selectedProduct, pageAtSelect>>
    /\ UNCHANGED shellVars
    /\ UNCHANGED listingVars

-----------------------------------------------------------------------------
(* Specifications *)

\* The shell has mounted: the PagerView shows its initial page and the
\* MarketplaceScreen on it has run its mount effects.
InitApp ==
    /\ currentPage = 0
    /\ selectedProduct = NoProduct
    /\ scaleAnims = [i \in Pages |-> <<Normal>>]
    /\ pagerRef = "pager"
    /\ pagerPage = InitialPage
    /\ pageEvents = <<>>
    /\ isLoading = TRUE
    /\ refreshing = FALSE
    /\ newProducts = <<>>
    /\ saleProducts = <<>>
    /\ categories = <<>>
    /\ loads = [c \in LoadIds |->
                  IF c = 1
                  THEN IssueRequests([IdleLoad EXCEPT !.origin = "mount"])
                  ELSE IdleLoad]
    /\ subs = 1
    /\ writer = NoWriter
    /\ badge = NoBadge
    /\ last = Note("mount", 1, 0, <<>>, <<>>)
    /\ pageAtSelect = 0

Init == InitApp /\ card = NoCard

\* The data service: answers, rejections and change notifications
DataService ==
    \/ \E c \in LoadIds, r \in Requests :
          FetchResolves(c, r, NewResponses, SupplierResponses,
                        CategoryResponses)
    \/ \E c \in LoadIds, r \in Requests : FetchRejects(c, r)
    \/ \E c \in LoadIds, n \in CatalogSizes :
          FetchAllResolves(c, n, SupplierResponses, CategoryResponses)
    \/ \E c \in LoadIds : FetchAllRejects(c)
    \/ \E c \in LoadIds : InvalidateResolves(c)
    \/ \E c \in LoadIds : InvalidateRejects(c)
    \/ Notify

\* The user stays on the home page: pull-to-refresh, product cards, back
\* (with a PagerView that does not report its initial page)
Next ==
    \/ DataService
    \/ OnRefresh
    \/ \E product \in 1..MaxCatalog : HandleProductPress(product)
    \/ HandleBackFromProduct(FALSE)

Spec == Init /\ [][Next]_vars

\* The user moves between the tabs; the data service answers every request
\* with products.
NextShell ==
    \/ \E index \in Pages : \E emit \in EmitChoices(index) :
          HandleTabPress(index, emit)
    \/ \E emit \in EmitChoices(CartPage) : HandleNavigateToCart(emit)
    \/ \E to \in Pages : UserSwipe(to)
    \/ HandlePageSelected
    \/ \E i \in Pages : AnimationAdvances(i)
    \/ \E product \in 1..MaxCatalog : HandleProductPress(product)
    \/ \E emit \in BOOLEAN : HandleBackFromProduct(emit)
    \/ \E c \in LoadIds, r \in Requests :
          FetchResolves(c, r, {<<3, 1>>}, {<<2>>}, {<<"phones">>})

SpecShell == Init /\ [][NextShell]_vars

\* Cards of all products
InitCard == InitApp /\ card \in Cards

NextCard == RenderCard

SpecCard == InitCard /\ [][NextCard]_vars

\* A call the data service has accepted is settled: the promise of a
\* request or of invalidateProductCaches() is fulfilled or rejected.
Settles ==
    \/ \E c \in LoadIds, r \in Requests :
          FetchResolves(c, r, NewResponses, SupplierResponses,
                        CategoryResponses)
    \/ \E c \in LoadIds, r \in Requests : FetchRejects(c, r)
    \/ \E c \in LoadIds, n \in CatalogSizes :
          FetchAllResolves(c, n, SupplierResponses, CategoryResponses)
    \/ \E c \in LoadIds : FetchAllRejects(c)
    \/ \E c \in LoadIds : InvalidateResolves(c)
    \/ \E c \in LoadIds : InvalidateRejects(c)

\* The listing screen with a data service that settles every call: no
\* promise stays pending for ever, and its continuation is then run by the
\* JS event loop.
SpecLive == Init /\ [][Next]_vars /\ WF_vars(Settles)

-----------------------------------------------------------------------------
(* Properties *)

InFlight(c) == loads[c].pc \in {"inval", "all", "fbNew", "fbSale"}

\* C1 (SpecShell): after a product was selected while the current page was
\* p and the back-from-detail event occurred, the PagerView shows page p
\* and the tab highlighted as current is p.
C1_BackRestoresPage ==
    last.op = "back" => pagerPage = last.arg /\ currentPage = last.arg

\* C2 (Spec): a pull-to-refresh has issued none of its three initial-load
\* requests (nor a fallback, nor finished its load) unless its
\* cache-invalidate call has completed.
C2_InvalidateBeforeLoad ==
    \A c \in LoadIds :
        (/\ loads[c].origin = "refresh"
         /\ \/ \E r \in Requests : loads[c].req[r] # "none"
            \/ loads[c].pc \in {"all", "fbNew", "fbSale", "done"})
        => loads[c].inval = "ok"

C2_Witness ==
    \E c \in LoadIds :
        /\ loads[c].origin = "refresh"
        /\ loads[c].inval = "ok"
        /\ \A r \in Requests : loads[c].req[r] = "pending"

\* C3 (Spec): the loading flag is never false while the mount load still has
\* an unresolved request (one of its three requests or a fallback).
C3_LoadingUntilMountLoadResolved ==
    \A c \in LoadIds :
        (/\ loads[c].origin = "mount"
         /\ \/ \E r \in Requests : loads[c].req[r] = "pending"
            \/ loads[c].fb = "pending")
        => isLoading

\* C4 (Spec): a run of loadData that has ended has not rejected and has
\* cleared the loading flag; when a request of the run (one of the three,
\* or a fallback) is rejected, the run ends at once through its catch block
\* with the loading flag false.
C4_RejectionsCaught ==
    /\ \A c \in LoadIds :
          loads[c].pc = "done" =>
              loads[c].end \in {"ok", "caught"} /\ ~isLoading
    /\ last.op \in {"fetchRejected", "fallbackRejected"} =>
          /\ loads[last.cyc].pc = "done"
          /\ loads[last.cyc].end = "caught"
          /\ ~isLoading

C4_Witness ==
    /\ last.op = "fallbackRejected"
    /\ loads[last.cyc].end = "caught"
    /\ ~isLoading
    /\ \E c \in LoadIds : c # last.cyc /\ loads[c].end = "caught"

\* C5 (Spec): the data service holds exactly one product-change subscription
\* while the listing screen is mounted and none while it is unmounted.
C5_SubscriptionScoped == subs = IF Mounted THEN 1 ELSE 0

C5_Witness == last.op = "back" /\ Mounted /\ subs = 1

\* C6 (Spec): every change notification starts one new run of loadData with
\* its three requests issued, and leaves every other run as it was.
C6_EveryNotificationLoads ==
    [][last'.op = "notify" =>
          /\ loads[last'.cyc].pc = "unused"
          /\ loads'[last'.cyc].pc = "all"
          /\ \A r \in Requests : loads'[last'.cyc].req[r] = "pending"
          /\ \A d \in LoadIds \ {last'.cyc} : loads'[d] = loads[d]]_vars

C6_Witness ==
    /\ last.op = "notify"
    /\ loads[last.cyc].pc = "all"
    /\ \E d \in LoadIds \ {last.cyc} : InFlight(d)

\* C7 (SpecShell): a press of tab button i makes the PagerView receive
\* exactly one setPage command, setPage(i), and show page i.
C7_PressJumpsOnce ==
    last.op = "tabPress" => last.jumps = <<last.arg>> /\ pagerPage = last.arg

C7_Witness ==
    /\ last.op = "tabPress"
    /\ last.arg = currentPage
    /\ last.jumps = <<last.arg>>

\* C8 (SpecShell): right after a swipe-complete event reporting position p
\* the recorded current index is p, tab p animates to the enlarged value
\* and every other tab to the normal value, with nothing queued behind.
C8_ExactlyOneEnlarged ==
    last.op = "pageSelected" =>
        /\ currentPage = last.arg
        /\ \A i \in Pages :
              scaleAnims[i] = <<IF i = last.arg THEN Enlarged ELSE Normal>>
        /\ Cardinality({i \in Pages : Head(scaleAnims[i]) = Enlarged}) = 1

C8_Witness ==
    /\ last.op = "pageSelected"
    /\ last.val # <<0>>
    /\ scaleAnims[last.arg] = <<Enlarged>>

\* C9 (Spec): when fetch-new returned nothing and the full catalog has n
\* items, the new-items collection becomes the first min(10, n) items of the
\* catalog in order; when fetch-new returned items they are displayed
\* unchanged and no full-catalog request is made for the new section.
C9_NewSectionFallback ==
    /\ last.op = "fallbackNew" =>
          /\ Len(newProducts) = Min(SliceLimit, last.arg)
          /\ \A k \in 1..Len(newProducts) :
                newProducts[k] = Catalog(last.arg)[k]
    /\ last.op = "allResolved" =>
          IF last.val = <<>>
          THEN loads[last.cyc].pc = "fbNew"
          ELSE newProducts = last.val /\ loads[last.cyc].pc # "fbNew"

C9_Witness ==
    /\ last.op = "fallbackNew"
    /\ last.arg = MaxCatalog
    /\ Len(newProducts) = SliceLimit
    /\ newProducts[SliceLimit] = SliceLimit

\* round(100 * (o - p) / o) in exact arithmetic, a half rounding up
ExactPercent(o, p) == (200 * (o - p) + o) \div (2 * o)
\* 100 * (o - p) / o lies exactly halfway between two integers
HalfwayPercent(o, p) == (200 * (o - p)) % (2 * o) = o
Shown(v) == IF v > 0 THEN v ELSE NoBadge

\* C10 as stated (SpecCard): a badge is shown if and only if an original
\* price o > p exists, and it shows round(100 * (o - p) / o).
C10_BadgeIffCheaper ==
    last.op = "renderCard" =>
        LET o == card.original_price
            p == card.price
        IN  /\ badge # NoBadge <=> (o # NoPrice /\ o > p)
            /\ badge # NoBadge => badge = ExactPercent(o, p)

\* C10 as amended (SpecCard): a badge is shown only if an original price
\* o > p exists, and exactly when the computed percentage is at least 1; it
\* shows round(100 * (o - p) / o), or the integer below when that quotient
\* lies exactly halfway between two integers; o=1000, p=750 shows 25 and
\* o=1000, p=1000 shows no badge.
C10_BadgeOfRoundedPercent ==
    last.op = "renderCard" =>
        LET o == card.original_price
            p == card.price
        IN  /\ badge # NoBadge => o # NoPrice /\ o > p
            /\ (o # NoPrice /\ o > p) =>
                  IF HalfwayPercent(o, p)
                  THEN badge \in {Shown(ExactPercent(o, p)),
                                  Shown(ExactPercent(o, p) - 1)}
                  ELSE badge = Shown(ExactPercent(o, p))
            /\ (o = 1000 /\ p = 750) => badge = 25
            /\ (o = 1000 /\ p = 1000) => badge = NoBadge

C10_Witness ==
    /\ last.op = "renderCard"
    /\ card.original_price = 1000
    /\ card.price = 999
    /\ badge = NoBadge

\* C11 (SpecShell): right after a press on tab i, tab i runs a shrink to
\* 0.85 followed by a rebound whose target is the enlarged value when the
\* press makes i the page of the PagerView (so that i becomes current), and
\* the normal value otherwise.
C11_ReboundToEnlarged ==
    last.op = "tabPress" =>
        scaleAnims[last.arg] =
            <<Shrunk, IF pagerPage = last.arg THEN Enlarged ELSE Normal>>

\* C12 (SpecShell): a tab press leaves currentPage and selectedProduct as
\* they were, and currentPage changes only in handlePageSelected, to the
\* position the event reports.
C12_PressKeepsCurrentPage ==
    [][/\ last'.op = "tabPress" =>
              currentPage' = currentPage /\ selectedProduct' = selectedProduct
       /\ currentPage' # currentPage =>
              /\ last'.op = "pageSelected"
              /\ pageEvents # <<>>
              /\ currentPage' = Head(pageEvents)]_vars

C12_Witness ==
    /\ last.op = "tabPress"
    /\ last.arg # currentPage
    /\ pagerPage = last.arg
    /\ currentPage # InitialPage

\* C13 (Spec): whenever no run of loadData is in flight, the displayed
\* collections that a run has written were all written last by one and the
\* same run: the screen never shows new items of one run together with
\* supplier items or categories of another.
C13_OneCycleDisplayed ==
    (\A c \in LoadIds : ~InFlight(c)) =>
        \A k, j \in Collections :
            writer[k] # NoCycle /\ writer[j] # NoCycle => writer[k] = writer[j]

\* C14 (Spec): a run of loadData of which a request is rejected has applied
\* none of its three results, so that no displayed collection holds what
\* that run wrote.
C14_AllOrNothing ==
    last.op \in {"fetchRejected", "fallbackRejected"} =>
        /\ last.val = <<>>
        /\ \A k \in Collections : writer[k] # last.cyc

\* C15 (SpecLive): once a pull-to-refresh has set the refreshing indicator,
\* the indicator becomes false again, whether the cache invalidation and
\* the requests of the load are fulfilled or rejected.
C15_RefreshEventuallyCleared == refreshing ~> ~refreshing

=============================================================================
